---- MODULE Spec2Model ----
(***************************************************************************)
(* Model of youtube2zim's scraper (src/youtube2zim/scraper.py): the        *)
(* Youtube2Zim object, its run() pipeline and the build/cache directory    *)
(* it works in.                                                            *)
(*                                                                         *)
(* Text values (titles, colors, names) are sequences of one-character      *)
(* strings, so that str.strip(), str.split(",") and the hex-color pattern  *)
(* are computed and not assumed.  Python's None is the value None below.   *)
(***************************************************************************)
EXTENDS Integers, Sequences, FiniteSets, TLC

(* ------------------------------ bounds --------------------------------- *)
\* number of distinct video ids on the platform (video ids are 1..NumVideos)
NumVideos == 2
\* longest playlist (number of playlist items)
MaxLen == 2

(* --------------------------- text helpers ------------------------------ *)
None == <<"<None>">>

\* Python truthiness of an Optional[str]
Truthy(x) == x # None /\ x # <<>>

\* Python `a or b`
Or(a, b) == IF Truthy(a) THEN a ELSE b

IsSpace(c) == c = " "

RECURSIVE LStrip(_)
LStrip(s) == IF s # <<>> /\ IsSpace(Head(s)) THEN LStrip(Tail(s)) ELSE s

RECURSIVE RStrip(_)
RStrip(s) ==
    IF s # <<>> /\ IsSpace(s[Len(s)]) THEN RStrip(SubSeq(s, 1, Len(s) - 1)) ELSE s

\* str.strip()
Strip(s) == RStrip(LStrip(s))

\* str.split(","): the text is a sequence of tokens, "," being the separator
RECURSIVE SplitAcc(_, _, _)
SplitAcc(s, cur, acc) ==
    IF s = <<>> THEN Append(acc, cur)
    ELSE IF Head(s) = "," THEN SplitAcc(Tail(s), <<>>, Append(acc, cur))
    ELSE SplitAcc(Tail(s), cur \o <<Head(s)>>, acc)

Split(s) == SplitAcc(s, <<>>, <<>>)

Range(s) == {s[i] : i \in DOMAIN s}

\* list(set(xs)): the distinct elements of xs, in an order Python does not fix
Perms(S) == {p \in [1..Cardinality(S) -> S] : Range(p) = S}

(* ------------------------ the platform (world) ------------------------- *)
PL1 == <<"P", "1">>
PL2 == <<"P", "2">>
UU1 == <<"U", "1">>
UC1 == <<"C", "1">>
UC2 == <<"C", "2">>
USER1 == <<"u", "1">>

PlaylistIds == {PL1, PL2, UU1}
Channels == {UC1, UC2}
Videos == 1..NumVideos

CHANNEL == "channel"
PLAYLIST == "playlist"
USER == "user"

VARIABLES
    args,             \* the constructor's arguments (lines 47-73)
    world,            \* what the platform and the downloader answer
    pc,               \* position of run() (lines 176-236)
    error,            \* the exception that ended run(), if any
    started,          \* stages run() has entered in this invocation
    api_calls,        \* get_videos_json invocations in this invocation
    branding_calls,   \* save_channel_branding invocations in this invocation
    packaged,         \* make_zim_file was called in this invocation
    playlists,        \* self.playlists
    videos_ids,       \* self.videos_ids
    main_channel_id,  \* self.main_channel_id
    title,            \* self.title
    creator,          \* self.creator
    publisher,        \* self.publisher
    name,             \* self.name
    tags,             \* self.tags
    main_color,       \* self.main_color
    secondary_color,  \* self.secondary_color
    zim_info,         \* self.zim_info
    build_dir,        \* TRUE iff the build directory exists
    cache,            \* build/cache: one optional JSON document per key
    profile_jpg,      \* build/profile.jpg: the image it holds, if any
    banner_jpg,       \* build/banner.jpg: the image it holds, if any
    favicon_jpg,      \* build/favicon.jpg
    channels_dir,     \* build/channels/<id>/{profile,banner}.jpg
    videos_dir,       \* build/videos/<id>/: its files, for the directories present
    pages,            \* build/<slug>.html
    data_js           \* build/assets/data.js

obj == <<playlists, videos_ids, main_channel_id, title, creator, publisher, name,
         tags, main_color, secondary_color, zim_info>>
disk == <<build_dir, cache, profile_jpg, banner_jpg, favicon_jpg, channels_dir,
          videos_dir, pages, data_js>>
ctl == <<pc, error, started, api_calls, branding_calls, packaged>>
vars == <<args, world, ctl, obj, disk>>

(* --------------------- platform API (youtube.py) ----------------------- *)
\* get_channel_json(youtube_id, for_username)["id"]
ChannelId(youtube_id) == IF youtube_id = USER1 THEN UC1 ELSE youtube_id

\* channel_json["contentDetails"]["relatedPlaylists"]["uploads"]
Uploads(channel_id) == UU1

\* Playlist.from_id(playlist_id).creator_id
CreatorId(playlist_id) == IF playlist_id = PL2 THEN UC2 ELSE UC1

PlaylistTitle(playlist_id) ==
    IF playlist_id = PL1 THEN <<"L", "1">>
    ELSE IF playlist_id = PL2 THEN <<"L", "2">>
    ELSE <<"U", "p">>

\* Playlist.from_id(playlist_id)
PlaylistFromId(playlist_id) ==
    [playlist_id |-> playlist_id,
     title |-> PlaylistTitle(playlist_id),
     creator_id |-> CreatorId(playlist_id)]

Digit(n) == <<"1", "2", "3", "4", "5">>[n]

\* video["snippet"]["title"]
VideoTitle(w, v) == w.video_title[v]

\* video["snippet"]["channelId"]: the author's channel
VideoChannel(w, v) == w.author[v]

\* the items the platform lists for a playlist, each with its position; the
\* pages of the listing come by position or the other way round (w.reversed)
PlaylistItems(w, playlist_id) ==
    LET n == Len(w.items[playlist_id])
    IN  [i \in 1..n |->
            LET k == IF w.reversed THEN n + 1 - i ELSE i
            IN  [videoId |-> w.items[playlist_id][k],
                 playlistId |-> playlist_id,
                 position |-> k - 1]]

(* ------------------------ cache (utils.py) ----------------------------- *)
\* A cache key holds at most one document: {} is "never saved" (load_json
\* gives None), {d} is the saved document d.
EmptyCache ==
    [videos |-> {}, videos_channels |-> {}, playlist_videos |-> [p \in PlaylistIds |-> {}]]

\* load_json(cache_dir, key) is None
IsNone(entry) == entry = {}

\* the document load_json returns for a saved key
Loaded(entry) == CHOOSE d \in entry : TRUE

\* get_videos_json(playlist_id): the cached list when there is one, else the
\* platform's list
get_videos_json(c, w, playlist_id) ==
    IF IsNone(c.playlist_videos[playlist_id])
    THEN PlaylistItems(w, playlist_id)
    ELSE Loaded(c.playlist_videos[playlist_id])

(* ------------------------------ dict ----------------------------------- *)
\* A dict keyed by video id is the sequence of its values in insertion order.
Keys(d) == [i \in DOMAIN d |-> d[i].videoId]

DictSetKeepFirst(d, item) ==
    IF \E i \in DOMAIN d : d[i].videoId = item.videoId THEN d ELSE Append(d, item)

\* d[item.videoId] = item
DictSet(d, item) ==
    IF \E i \in DOMAIN d : d[i].videoId = item.videoId
    THEN [i \in DOMAIN d |-> IF d[i].videoId = item.videoId THEN item ELSE d[i]]
    ELSE Append(d, item)

\* d.update(items), items taken in order
RECURSIVE DictUpdate(_, _)
DictUpdate(d, items) ==
    IF items = <<>> THEN d ELSE DictUpdate(DictSet(d, Head(items)), Tail(items))

(* --------------------------- construction ------------------------------ *)
NoError == [stage |-> "", kind |-> ""]

NoCalls == [c \in Channels \X BOOLEAN |-> 0]

NoVideosDir == [v \in Videos |-> "absent"]

\* ZimInfo(language=..., tags=tags, title=title, ...) (lines 113-121)
ZimInfo(a) ==
    [title |-> a.title, creator |-> a.creator, publisher |-> a.publisher,
     name |-> a.name, tags |-> a.tags]

is_user(a) == a.collection_type = USER
is_channel(a) == a.collection_type = CHANNEL
is_playlist(a) == a.collection_type = PLAYLIST

\* what a run can be asked for
Collections ==
    {[collection_type |-> CHANNEL, youtube_id |-> UC1],
     [collection_type |-> USER, youtube_id |-> USER1],
     [collection_type |-> "video", youtube_id |-> PL1]}
    \cup {[collection_type |-> PLAYLIST, youtube_id |-> y] :
            y \in {PL1, PL2, PL1 \o <<",">> \o PL2, PL2 \o <<",">> \o PL1,
                   PL1 \o <<",">> \o PL1}}

Stages ==
    {"credentials", "check_branding_values", "extract_playlists",
     "extract_videos_list", "download_video_files", "get_videos_authors_info",
     "download_authors_branding", "update_metadata", "make_html_files",
     "make_zim_file"}

Running == pc \in Stages

FailSwallowed(stage, kind) ==
    /\ pc' = "make_zim_file"
    /\ error' = [stage |-> stage, kind |-> kind]

\* an exception raised in a stage leaves run() (lines 176-236 catch nothing)
Fail(stage, kind) ==
    /\ pc' = "failed"
    /\ error' = [stage |-> stage, kind |-> kind]

Goto(stage) ==
    /\ pc' = stage
    /\ error' = error

(* ---------------- run(): preparing the build folder -------------------- *)
\* line 183: the build folder of an earlier run is removed
WipesBuildDirAlways(keep_build_dir, exists) == exists

WipesBuildDir(keep_build_dir, exists) == ~keep_build_dir /\ exists

\* lines 182-186 and make_build_folder (lines 238-256)
PrepareBuildFolder ==
    /\ pc = "run"
    /\ build_dir' = TRUE
    /\ IF WipesBuildDir(args.keep_build_dir, build_dir)
       THEN /\ cache' = EmptyCache
            /\ profile_jpg' = <<>>
            /\ banner_jpg' = <<>>
            /\ favicon_jpg' = <<>>
            /\ channels_dir' = {}
            /\ videos_dir' = NoVideosDir
            /\ pages' = {}
       ELSE UNCHANGED <<cache, profile_jpg, banner_jpg, favicon_jpg, channels_dir,
                        videos_dir, pages>>
    \* the assets folder is replaced by the templates' assets
    /\ data_js' = <<>>
    /\ Goto("credentials")
    /\ UNCHANGED <<args, world, started, api_calls, branding_calls, packaged, obj>>

CredentialsRefusedNever(ok) == FALSE

\* line 189: not credentials_ok()
CredentialsRefused(ok) == ~ok

\* lines 188-190
CheckCredentials ==
    /\ pc = "credentials"
    /\ started' = started \cup {"credentials"}
    /\ IF CredentialsRefused(world.credentials_ok)
       THEN Fail("credentials", "ValueError")
       ELSE Goto("check_branding_values")
    /\ UNCHANGED <<args, world, api_calls, branding_calls, packaged, obj, disk>>

(* ----------------------- check_branding_values ------------------------- *)
HexDigits ==
    {"0", "1", "2", "3", "4", "5", "6", "7", "8", "9",
     "a", "b", "c", "d", "e", "f", "A", "B", "C", "D", "E", "F"}

\* utils.is_hex_color: "#" and six hexadecimal digits
is_hex_color(text) ==
    /\ Len(text) = 7
    /\ text[1] = "#"
    /\ \A i \in 2..7 : text[i] \in HexDigits

\* the image a user supplied, once stored in the build folder
UserImage == <<"user">>

\* channels/<channel_id>/<kind>.jpg
ChannelImage(kind, channel_id) == <<kind>> \o channel_id

\* An image argument is absent ("none"), a str holding a URL ("url"), a str
\* holding a local path ("str_path") or a pathlib.Path ("path_obj").
\* lines 278-287 (profile) and 288-297 (banner): a Path has no startswith, a
\* str has no exists; a URL is fetched by save_file, which can fail.
ImageResult(image, fetched) ==
    CASE image = "none" -> "skip"
      [] image = "url" -> IF fetched THEN "saved" ELSE "IOError"
      [] OTHER -> "AttributeError"

\* lines 265-276: none of the branding values was supplied
NoBrandingSupplied(a, main, secondary) ==
    /\ a.profile_image = "none"
    /\ a.banner_image = "none"
    /\ ~Truthy(main)
    /\ ~Truthy(secondary)

InvalidColorNever(color) == FALSE

\* lines 299 and 304: a supplied color that is not a hex color
InvalidColor(color) == Truthy(color) /\ ~is_hex_color(color)

\* lines 258-307
check_branding_values ==
    /\ pc = "check_branding_values"
    /\ started' = started \cup {"check_branding_values"}
    /\ \E pf \in BOOLEAN, bf \in BOOLEAN :
         LET p == ImageResult(args.profile_image, pf)
             b == ImageResult(args.banner_image, bf)
             perr == p \notin {"skip", "saved"}
             berr == b \notin {"skip", "saved"}
         IN  IF NoBrandingSupplied(args, main_color, secondary_color)
             THEN /\ Goto("extract_playlists")
                  /\ UNCHANGED <<profile_jpg, banner_jpg>>
             ELSE /\ profile_jpg' = IF p = "saved" THEN UserImage ELSE profile_jpg
                  /\ banner_jpg' =
                        IF ~perr /\ b = "saved" THEN UserImage ELSE banner_jpg
                  /\ IF perr THEN Fail("check_branding_values", p)
                     ELSE IF berr THEN Fail("check_branding_values", b)
                     ELSE IF InvalidColor(main_color) \/ InvalidColor(secondary_color)
                     THEN Fail("check_branding_values", "ValueError")
                     ELSE Goto("extract_playlists")
    /\ UNCHANGED <<args, world, api_calls, branding_calls, packaged, obj, build_dir,
                   cache, favicon_jpg, channels_dir, videos_dir, pages, data_js>>

(* -------------------------- extract_playlists -------------------------- *)
ChannelPlaylistIdsListedOnly(listed, uploads) == listed

\* lines 327-333: the channel's playlists, then its uploads playlist
ChannelPlaylistIds(listed, uploads) == listed \o <<uploads>>

\* lines 316-335: playlist_ids
playlist_ids(a, w) ==
    IF is_user(a) \/ is_channel(a)
    THEN ChannelPlaylistIds(w.listed, Uploads(ChannelId(a.youtube_id)))
    ELSE Split(a.youtube_id)

MainChannelIdOfLast(a) ==
    IF is_user(a) \/ is_channel(a)
    THEN ChannelId(a.youtube_id)
    ELSE CreatorId(Split(a.youtube_id)[Len(Split(a.youtube_id))])

\* lines 324 and 336
MainChannelId(a) ==
    IF is_user(a) \/ is_channel(a)
    THEN ChannelId(a.youtube_id)
    ELSE CreatorId(Split(a.youtube_id)[1])

ListKeepingRepeats(ids) == {ids}

\* line 341: list(set(playlist_ids)), the orders Python may store them in
ListOfSet(ids) == Perms(Range(ids))

\* lines 309-342; get_channel_json, get_channel_playlists_json and
\* Playlist.from_id call the platform, which can fail
extract_playlists ==
    /\ pc = "extract_playlists"
    /\ started' = started \cup {"extract_playlists"}
    /\ IF is_user(args) \/ is_channel(args) \/ is_playlist(args)
       THEN \/ /\ \E order \in ListOfSet(playlist_ids(args, world)) :
                    playlists' = [i \in DOMAIN order |-> PlaylistFromId(order[i])]
               /\ main_channel_id' = MainChannelId(args)
               /\ Goto("extract_videos_list")
            \/ /\ Fail("extract_playlists", "ApiError")
               /\ UNCHANGED <<playlists, main_channel_id>>
       ELSE /\ Fail("extract_playlists", "NotImplementedError")
            /\ UNCHANGED <<playlists, main_channel_id>>
    /\ UNCHANGED <<args, world, api_calls, branding_calls, packaged, videos_ids, title,
                   creator, publisher, name, tags, main_color, secondary_color,
                   zim_info, disk>>

(* ------------------------- extract_videos_list ------------------------- *)
\* lines 353-356: {v["contentDetails"]["videoId"]: v for v in ...}
DictOf(items) == DictUpdate(<<>>, items)

\* lines 351-357: the loop over self.playlists
RECURSIVE MergeVideos(_, _, _, _)
MergeVideos(all_videos, pls, c, w) ==
    IF pls = <<>> THEN all_videos
    ELSE MergeVideos(
            DictUpdate(all_videos, DictOf(get_videos_json(c, w, Head(pls).playlist_id))),
            Tail(pls), c, w)

\* the per-playlist documents get_videos_json leaves in the cache after it was
\* called for the first k playlists
PlaylistVideosAfter(c, w, pls, k) ==
    [p \in PlaylistIds |->
        IF \E i \in 1..k : pls[i].playlist_id = p
        THEN {get_videos_json(c, w, p)}
        ELSE c.playlist_videos[p]]

NoVideosEntryAlways(c) == TRUE

\* line 347: all_videos is None
NoVideosEntry(c) == IsNone(c.videos)

\* lines 344-365
extract_videos_list ==
    /\ pc = "extract_videos_list"
    /\ started' = started \cup {"extract_videos_list"}
    /\ IF NoVideosEntry(cache)
       THEN \/ LET all_videos == MergeVideos(<<>>, playlists, cache, world)
               IN  /\ cache' =
                        [cache EXCEPT
                            !.playlist_videos =
                                PlaylistVideosAfter(cache, world, playlists, Len(playlists)),
                            !.videos = {all_videos}]
                   /\ api_calls' = api_calls + Len(playlists)
                   /\ videos_ids' = Keys(all_videos)
                   /\ Goto("download_video_files")
            \/ \E k \in 1..Len(playlists) :
                   \* the k-th get_videos_json call fails
                   /\ cache' =
                        [cache EXCEPT
                            !.playlist_videos =
                                PlaylistVideosAfter(cache, world, playlists, k - 1)]
                   /\ api_calls' = api_calls + k
                   /\ videos_ids' = videos_ids
                   /\ Fail("extract_videos_list", "ApiError")
       ELSE /\ videos_ids' = Keys(Loaded(cache.videos))
            /\ UNCHANGED <<cache, api_calls>>
            /\ Goto("download_video_files")
    /\ UNCHANGED <<args, world, branding_calls, packaged, playlists, main_channel_id,
                   title, creator, publisher, name, tags, main_color, secondary_color,
                   zim_info, build_dir, profile_jpg, banner_jpg, favicon_jpg,
                   channels_dir, videos_dir, pages, data_js>>

(* ------------------------ download_video_files ------------------------- *)
\* what the downloader leaves in videos/<id>/ for a video it could fetch
\* wholly ("ok"), without its thumbnail ("no_thumbnail") or not at all
AfterDownload(dir_state, outcome) ==
    CASE outcome = "ok" -> "complete"
      [] outcome = "no_thumbnail" ->
            IF dir_state = "complete" THEN "complete" ELSE "no_thumbnail"
      [] OTHER -> dir_state

\* utils.resize_image(video.jpg): whether it raises when the file is absent
\* is the library's choice (w.resize_strict)
resize_image_raises(w, dir_state) == w.resize_strict /\ dir_state # "complete"

\* lines 214-215 and 367-404
download_video_files ==
    /\ pc = "download_video_files"
    /\ IF args.skip_download
       THEN /\ Goto("get_videos_authors_info")
            /\ UNCHANGED <<started, videos_dir>>
       ELSE /\ started' = started \cup {"download_video_files"}
            /\ videos_dir' =
                  [v \in Videos |->
                      IF v \in Range(videos_ids)
                      THEN AfterDownload(videos_dir[v], world.download[v])
                      ELSE videos_dir[v]]
            /\ IF \E v \in Range(videos_ids) : resize_image_raises(world, videos_dir'[v])
               THEN Fail("download_video_files", "FileNotFoundError")
               ELSE Goto("get_videos_authors_info")
    /\ UNCHANGED <<args, world, api_calls, branding_calls, packaged, obj, build_dir,
                   cache, profile_jpg, banner_jpg, favicon_jpg, channels_dir, pages,
                   data_js>>

(* ----------------------- get_videos_authors_info ----------------------- *)
\* youtube.get_videos_authors_info (line 218): the `videos_channels` document,
\* video id -> author channel, fetched unless the cache holds it
get_videos_authors_info ==
    /\ pc = "get_videos_authors_info"
    /\ started' = started \cup {"get_videos_authors_info"}
    /\ \/ /\ cache' =
              IF IsNone(cache.videos_channels)
              THEN [cache EXCEPT
                      !.videos_channels =
                          {[v \in Range(videos_ids) |-> VideoChannel(world, v)]}]
              ELSE cache
          /\ Goto("download_authors_branding")
       \/ /\ IsNone(cache.videos_channels)
          /\ cache' = cache
          /\ Fail("get_videos_authors_info", "ApiError")
    /\ UNCHANGED <<args, world, api_calls, branding_calls, packaged, obj, build_dir,
                   profile_jpg, banner_jpg, favicon_jpg, channels_dir, videos_dir,
                   pages, data_js>>

(* ---------------------- download_authors_branding ---------------------- *)
\* youtube.save_channel_branding(channels_dir, channel_id, save_banner): the
\* files it stores
BrandingFiles(channel_id, save_banner) ==
    {ChannelImage("profile", channel_id)}
        \cup (IF save_banner THEN {ChannelImage("banner", channel_id)} ELSE {})

\* lines 408-410
uniq_channel_ids(videos_channels_json) ==
    {videos_channels_json[v] : v \in DOMAIN videos_channels_json}

BrandingFetchesPerVideo(videos_channels_json, channel_id) ==
    Cardinality({v \in DOMAIN videos_channels_json :
                    videos_channels_json[v] = channel_id})

\* lines 411-412: the save_channel_branding calls the loop makes for a channel
BrandingFetches(videos_channels_json, channel_id) ==
    IF channel_id \in uniq_channel_ids(videos_channels_json) THEN 1 ELSE 0

\* lines 406-412; a fetch can fail after some of the channels were stored
download_authors_branding ==
    /\ pc = "download_authors_branding"
    /\ started' = started \cup {"download_authors_branding"}
    /\ LET ids == uniq_channel_ids(Loaded(cache.videos_channels))
       IN  \E fetched \in SUBSET ids :
             /\ channels_dir' =
                   channels_dir \cup UNION {BrandingFiles(c, FALSE) : c \in fetched}
             /\ branding_calls' =
                   [k \in Channels \X BOOLEAN |->
                       IF k[1] \in fetched /\ ~k[2]
                       THEN branding_calls[k]
                               + BrandingFetches(Loaded(cache.videos_channels), k[1])
                       ELSE branding_calls[k]]
             /\ IF fetched = ids
                THEN Goto("update_metadata")
                ELSE Fail("download_authors_branding", "ApiError")
    /\ UNCHANGED <<args, world, api_calls, packaged, obj, build_dir, cache,
                   profile_jpg, banner_jpg, favicon_jpg, videos_dir, pages, data_js>>

(* --------------------------- update_metadata --------------------------- *)
ResolveTitleDerivedOnly(user_title, auto) == auto

\* line 432: self.title or auto_title
ResolveTitle(user_title, auto) == Or(user_title, auto)

\* lines 422-426: auto_title
auto_title(a, pls, channel_title) ==
    IF is_playlist(a) /\ Len(pls) = 1 THEN pls[1].title ELSE Strip(channel_title)

\* lines 435-441
ResolveCreator(user_creator, a, channel_title) ==
    IF user_creator = None
    THEN IF is_playlist(a)
         THEN <<"Youtube Channels">>
         ELSE <<"Youtube Channel \"">> \o channel_title \o <<"\"">>
    ELSE user_creator

\* line 442
ResolvePublisher(user_publisher) == Or(user_publisher, <<"Kiwix">>)

\* line 444: the literal is stored as it is, whatever the user supplied
ResolveName(user_name) == <<"youtube-{ident}_{lang}_all">>

ResolveTagsAlwaysAppend(user_tags) ==
    Append(IF user_tags # <<>> THEN user_tags ELSE <<"youtube">>, "_videos:yes")

\* lines 445-447
ResolveTags(user_tags) ==
    LET t == IF user_tags # <<>> THEN user_tags ELSE <<"youtube">>
    IN  IF "_videos:yes" \notin Range(t) THEN Append(t, "_videos:yes") ELSE t

HexColor(d) == <<"#", d, d, d, d, d, d>>

\* utils.get_colors(image): the (main, secondary) colors sampled from an image
get_colors(image) ==
    IF image = UserImage
    THEN <<HexColor("1"), HexColor("2")>>
    ELSE <<HexColor("3"), HexColor("4")>>

\* lines 471-474: get_colors is called only when a color is None, while
\* `or` reads its result whenever a color is None or empty
ColorsUnbound(main, secondary) ==
    /\ ~(main = None \/ secondary = None)
    /\ (~Truthy(main) \/ ~Truthy(secondary))

\* lines 414-482
update_metadata ==
    /\ pc = "update_metadata"
    /\ started' = started \cup {"update_metadata"}
    /\ \/ \* get_channel_json or save_channel_branding fails
          /\ Fail("update_metadata", "ApiError")
          /\ UNCHANGED <<obj, branding_calls, channels_dir, profile_jpg, banner_jpg,
                         favicon_jpg>>
       \/ LET channel_title == world.channel_title[main_channel_id]
              profile == IF profile_jpg = <<>>
                         THEN ChannelImage("profile", main_channel_id)
                         ELSE profile_jpg
              sampled == get_colors(profile)
          IN  /\ channels_dir' = channels_dir \cup BrandingFiles(main_channel_id, TRUE)
              /\ branding_calls' =
                    [branding_calls EXCEPT
                        ![<<main_channel_id, TRUE>>] = @ + 1]
              /\ title' = ResolveTitle(title, auto_title(args, playlists, channel_title))
              /\ creator' = ResolveCreator(creator, args, channel_title)
              /\ publisher' = ResolvePublisher(publisher)
              /\ name' = ResolveName(name)
              /\ tags' = ResolveTags(tags)
              /\ zim_info' =
                    [title |-> title', creator |-> creator', publisher |-> publisher',
                     name |-> name', tags |-> tags']
              /\ profile_jpg' = profile
              /\ banner_jpg' =
                    IF banner_jpg = <<>>
                    THEN ChannelImage("banner", main_channel_id)
                    ELSE banner_jpg
              /\ IF ColorsUnbound(main_color, secondary_color)
                 THEN /\ Fail("update_metadata", "UnboundLocalError")
                      /\ UNCHANGED <<main_color, secondary_color, favicon_jpg>>
                 ELSE /\ main_color' = Or(main_color, sampled[1])
                      /\ secondary_color' = Or(secondary_color, sampled[2])
                      /\ favicon_jpg' = profile
                      /\ Goto("make_html_files")
              /\ UNCHANGED <<playlists, videos_ids, main_channel_id>>
    /\ UNCHANGED <<args, world, api_calls, packaged, build_dir, cache, videos_dir,
                   pages, data_js>>

(* --------------------------- make_html_files --------------------------- *)
Lower(c) == IF c = "T" THEN "t" ELSE c

\* utils.get_slug(title)
get_slug(text) == [i \in DOMAIN text |-> Lower(text[i])]

\* lines 496-502: video_dir.iterdir() needs the directory
get_subtitles_raises(dir_state) == dir_state = "absent"

\* lines 534-562 for one video: the exception it raises, "" when it writes
\* the page
PageError(video, videos_channels, dirs) ==
    IF video.videoId \notin DOMAIN videos_channels THEN "KeyError"
    ELSE IF get_subtitles_raises(dirs[video.videoId]) THEN "FileNotFoundError"
    ELSE ""

WritePageKeepFirst(pgs, slug, video_id) ==
    IF \E p \in pgs : p.slug = slug THEN pgs
    ELSE pgs \cup {[slug |-> slug, video_id |-> video_id]}

\* lines 559-562: open(<slug>.html, "w") replaces a page of the same slug
WritePage(pgs, slug, video_id) ==
    {p \in pgs : p.slug # slug} \cup {[slug |-> slug, video_id |-> video_id]}

\* the pages after the first n videos were rendered
RECURSIVE WritePages(_, _, _, _)
WritePages(pgs, videos, n, w) ==
    IF n = 0 THEN pgs
    ELSE WritePage(WritePages(pgs, videos, n - 1, w),
                   get_slug(VideoTitle(w, videos[n].videoId)), videos[n].videoId)

\* list.sort(key=position): a stable insertion sort
RECURSIVE InsertByPosition(_, _)
InsertByPosition(sorted, item) ==
    IF sorted = <<>> THEN <<item>>
    ELSE IF sorted[Len(sorted)].position <= item.position THEN Append(sorted, item)
    ELSE Append(InsertByPosition(SubSeq(sorted, 1, Len(sorted) - 1), item),
                sorted[Len(sorted)])

SortByPositionUnsorted(items) == items

\* line 602: playlist_videos.sort(key=position)
RECURSIVE SortByPosition(_)
SortByPosition(items) ==
    IF items = <<>> THEN <<>>
    ELSE InsertByPosition(SortByPosition(SubSeq(items, 1, Len(items) - 1)),
                          items[Len(items)])

\* lines 598-611 for one playlist: its line of data.js
DataJsEntry(c, playlist) ==
    [playlist_id |-> playlist.playlist_id,
     videos |-> Keys(SortByPosition(Loaded(c.playlist_videos[playlist.playlist_id])))]

HomePage == [slug |-> <<"home">>, video_id |-> 0]

\* lines 484-611
make_html_files ==
    /\ pc = "make_html_files"
    /\ started' = started \cup {"make_html_files"}
    /\ LET videos == Loaded(cache.videos)
           videos_channels == Loaded(cache.videos_channels)
           bad == {i \in DOMAIN videos :
                     PageError(videos[i], videos_channels, videos_dir) # ""}
           first_bad == CHOOSE i \in bad : \A j \in bad : i <= j
           no_list == {i \in DOMAIN playlists :
                         IsNone(cache.playlist_videos[playlists[i].playlist_id])}
           written == IF no_list = {} THEN Len(playlists)
                      ELSE (CHOOSE i \in no_list : \A j \in no_list : i <= j) - 1
       IN  IF bad # {}
           THEN /\ pages' = WritePages(pages, videos, first_bad - 1, world)
                /\ data_js' = data_js
                /\ Fail("make_html_files",
                        PageError(videos[first_bad], videos_channels, videos_dir))
           ELSE /\ pages' = WritePages(pages, videos, Len(videos), world) \cup {HomePage}
                /\ data_js' = [i \in 1..written |-> DataJsEntry(cache, playlists[i])]
                /\ IF no_list # {}
                   THEN Fail("make_html_files", "AttributeError")
                   ELSE Goto("make_zim_file")
    /\ UNCHANGED <<args, world, api_calls, branding_calls, packaged, obj, build_dir,
                   cache, profile_jpg, banner_jpg, favicon_jpg, channels_dir,
                   videos_dir>>

(* ---------------------------- make_zim_file ---------------------------- *)
\* lines 229-236
make_zim_file ==
    /\ pc = "make_zim_file"
    /\ IF args.no_zim
       THEN UNCHANGED <<started, packaged>>
       ELSE /\ started' = started \cup {"make_zim_file"}
            /\ packaged' = TRUE
    /\ Goto("done")
    /\ UNCHANGED <<args, world, api_calls, branding_calls, obj, disk>>

(* ------------------- the process and its invocations ------------------- *)
\* the process is killed while run() executes
Interrupt ==
    /\ pc = "run" \/ Running
    /\ Goto("killed")
    /\ UNCHANGED <<args, world, started, api_calls, branding_calls, packaged, obj,
                   disk>>

\* a new invocation for the same output directory: __init__ (lines 47-126)
Construct ==
    /\ pc \in {"done", "failed", "killed"}
    /\ \E c \in Collections, keep \in BOOLEAN :
         args' = [args EXCEPT !.collection_type = c.collection_type,
                              !.youtube_id = c.youtube_id,
                              !.keep_build_dir = keep]
    /\ pc' = "run"
    /\ error' = NoError
    /\ started' = {}
    /\ api_calls' = 0
    /\ branding_calls' = NoCalls
    /\ packaged' = FALSE
    /\ playlists' = <<>>
    /\ videos_ids' = <<>>
    /\ main_channel_id' = None
    /\ title' = args'.title
    /\ creator' = args'.creator
    /\ publisher' = args'.publisher
    /\ name' = args'.name
    /\ tags' = args'.tags
    /\ main_color' = args'.main_color
    /\ secondary_color' = args'.secondary_color
    /\ zim_info' = ZimInfo(args')
    /\ UNCHANGED <<world, disk>>

\* the first invocation, in an output directory without a build folder
InitWith(Inputs) ==
    /\ \E in \in Inputs :
          /\ args = in[1]
          /\ world = in[2]
    /\ pc = "run"
    /\ error = NoError
    /\ started = {}
    /\ api_calls = 0
    /\ branding_calls = NoCalls
    /\ packaged = FALSE
    /\ playlists = <<>>
    /\ videos_ids = <<>>
    /\ main_channel_id = None
    /\ title = args.title
    /\ creator = args.creator
    /\ publisher = args.publisher
    /\ name = args.name
    /\ tags = args.tags
    /\ main_color = args.main_color
    /\ secondary_color = args.secondary_color
    /\ zim_info = ZimInfo(args)
    /\ build_dir = FALSE
    /\ cache = EmptyCache
    /\ profile_jpg = <<>>
    /\ banner_jpg = <<>>
    /\ favicon_jpg = <<>>
    /\ channels_dir = {}
    /\ videos_dir = NoVideosDir
    /\ pages = {}
    /\ data_js = <<>>

\* one invocation of run()
Run ==
    \/ PrepareBuildFolder
    \/ CheckCredentials
    \/ check_branding_values
    \/ extract_playlists
    \/ extract_videos_list
    \/ download_video_files
    \/ get_videos_authors_info
    \/ download_authors_branding
    \/ update_metadata
    \/ make_html_files
    \/ make_zim_file

\* any number of invocations, one after the other, in the same output
\* directory, each of which may be killed
Next == Run \/ Interrupt \/ Construct

(* ------------------------- inputs and worlds --------------------------- *)
\* playlists of at most MaxLen items
ItemLists == UNION {[1..n -> Videos] : n \in 0..MaxLen}

AllVideos == [i \in 1..NumVideos |-> i]

DefaultArgs ==
    [collection_type |-> PLAYLIST, youtube_id |-> PL1 \o <<",">> \o PL2,
     keep_build_dir |-> FALSE, skip_download |-> FALSE, no_zim |-> FALSE,
     title |-> None, creator |-> None, publisher |-> None, name |-> None,
     tags |-> <<>>, main_color |-> None, secondary_color |-> None,
     profile_image |-> "none", banner_image |-> "none"]

DefaultWorld ==
    [listed |-> <<PL1>>,
     items |-> [p \in PlaylistIds |-> AllVideos],
     channel_title |-> [c \in Channels |-> <<"N">> \o c],
     download |-> [v \in Videos |-> "ok"],
     resize_strict |-> TRUE,
     credentials_ok |-> TRUE,
     reversed |-> FALSE,
     author |-> [v \in Videos |-> IF v <= 2 THEN UC1 ELSE UC2],
     video_title |-> [v \in Videos |-> <<"T", Digit(v)>>]]

WithCollection(a, c) ==
    [a EXCEPT !.collection_type = c.collection_type, !.youtube_id = c.youtube_id]

PlaylistCollections == {c \in Collections : c.collection_type = PLAYLIST}
ChannelCollections == {c \in Collections : c.collection_type \in {CHANNEL, USER}}

(* extraction: every playlist collection with every assignment of videos to
   PL1 and PL2, and every channel collection with every list of playlists *)
ExtractInputs ==
    ({WithCollection(DefaultArgs, c) : c \in PlaylistCollections}
        \X {[DefaultWorld EXCEPT !.items = [@ EXCEPT ![PL1] = a, ![PL2] = b]] :
              a \in ItemLists, b \in ItemLists})
    \cup
    ({WithCollection(DefaultArgs, c) : c \in Collections \ PlaylistCollections}
        \X {[DefaultWorld EXCEPT !.listed = l, !.items = [@ EXCEPT ![PL1] = a]] :
              l \in {<<>>, <<PL1>>, <<UU1>>, <<PL1, UU1>>, <<UU1, PL1>>},
              a \in ItemLists})

InitExtract == InitWith(ExtractInputs)

\* one invocation, for every collection and every assignment of videos
SpecExtract == InitExtract /\ [][Run]_vars

(* invocations one after the other in one output directory: PL1 and PL2 share
   a video and each has one of its own when NumVideos allows *)
SharedWorld ==
    [DefaultWorld EXCEPT
        !.items = [@ EXCEPT ![PL1] = <<1, 2>>, ![PL2] = <<2, NumVideos>>]]

Init == InitWith({DefaultArgs} \X {DefaultWorld, SharedWorld})

Spec == Init /\ [][Next]_vars

(* one invocation, for the metadata a user can supply *)
PaddedTitles == [c \in Channels |-> <<" ", "N">> \o c \o <<" ">>]

Hex1a2b3c == <<"#", "1", "a", "2", "b", "3", "c">>
Hex1a2b3 == <<"#", "1", "a", "2", "b", "3">>
Red == <<"r", "e", "d">>

MetaCollections ==
    {c \in Collections :
        \/ c.collection_type = CHANNEL
        \/ c.collection_type = PLAYLIST
             /\ c.youtube_id \in {PL1, PL1 \o <<",">> \o PL2, PL1 \o <<",">> \o PL1}}

MetaInputs ==
    ({[WithCollection(DefaultArgs, c) EXCEPT !.title = t, !.creator = cr] :
         c \in MetaCollections, t \in {None, <<>>, <<"X">>},
         cr \in {None, <<>>, <<"Me">>}}
        \X {DefaultWorld, [DefaultWorld EXCEPT !.channel_title = PaddedTitles]})
    \cup
    ({[WithCollection(DefaultArgs, c) EXCEPT
            !.creator = cr, !.publisher = pb, !.name = nm, !.tags = tg] :
         c \in {d \in MetaCollections : d.youtube_id \in {UC1, PL1}},
         cr \in {None, <<"Me">>}, pb \in {None, <<>>, <<"Pub">>},
         nm \in {None, <<>>, <<"my_name">>},
         tg \in {<<>>, <<"x">>, <<"_videos:yes">>, <<"_videos:yes", "_videos:yes">>}}
        \X {DefaultWorld})
    \cup
    ({[DefaultArgs EXCEPT
            !.main_color = m, !.secondary_color = s, !.profile_image = im] :
         m \in {None, <<>>, Hex1a2b3c}, s \in {None, <<>>, Hex1a2b3c},
         im \in {"none", "url"}}
        \X {DefaultWorld})

InitMeta == InitWith(MetaInputs)

SpecMeta == InitMeta /\ [][Run]_vars

(* one invocation, for the branding values a user can supply and for every
   outcome of the downloads *)
Downloads == [Videos -> {"ok", "no_thumbnail", "failed"}]

RunInputs ==
    ({[DefaultArgs EXCEPT
            !.main_color = m, !.secondary_color = s, !.profile_image = im,
            !.banner_image = bn] :
         m \in {None, Red, Hex1a2b3c}, s \in {None, Hex1a2b3, Hex1a2b3c},
         im \in {"none", "url", "str_path", "path_obj"},
         bn \in {"none", "url", "str_path"}}
        \X {DefaultWorld, [DefaultWorld EXCEPT !.credentials_ok = FALSE]})
    \cup
    ({[WithCollection(DefaultArgs, c) EXCEPT !.skip_download = sk, !.no_zim = nz] :
         c \in {d \in Collections : d.youtube_id \in {UC1, PL1}},
         sk \in BOOLEAN, nz \in BOOLEAN}
        \X {[DefaultWorld EXCEPT !.download = d, !.resize_strict = r] :
              d \in Downloads, r \in BOOLEAN})

InitRun == InitWith(RunInputs)

SpecRun == InitRun /\ [][Run]_vars

(* ============================== properties ============================= *)
\* the stage has run in this invocation and did not raise
Completed(stage) ==
    /\ stage \in started
    /\ ~(pc = "failed" /\ error.stage = stage)

ResolvedIds == {playlists[i].playlist_id : i \in DOMAIN playlists}

\* the last playlist, in processing order, that holds video v
LastHolder(v) ==
    LET holders == {i \in DOMAIN playlists :
                      v \in Range(world.items[playlists[i].playlist_id])}
    IN  playlists[CHOOSE i \in holders : \A j \in holders : j <= i].playlist_id

\* C1: on a cold cache, after extract_videos_list the merged Video Set has
\* exactly one record per video id, its keys are the union of the video ids
\* of all resolved playlists, and the record kept for an id is the one of the
\* playlist processed last among those holding it.
C1_MergedVideoSet ==
    (Completed("extract_videos_list") /\ api_calls > 0) =>
        /\ ~IsNone(cache.videos)
        /\ LET all_videos == Loaded(cache.videos)
           IN  /\ \A i, j \in DOMAIN all_videos :
                     all_videos[i].videoId = all_videos[j].videoId => i = j
               /\ Range(Keys(all_videos)) =
                     UNION {Range(world.items[p]) : p \in ResolvedIds}
               /\ \A i \in DOMAIN all_videos :
                     LET v == all_videos[i].videoId
                         items == world.items[LastHolder(v)]
                         at == {k \in DOMAIN items : items[k] = v}
                     IN  /\ all_videos[i].playlistId = LastHolder(v)
                         /\ \A k \in at : k - 1 <= all_videos[i].position
                         /\ all_videos[i].position + 1 \in at
               /\ videos_ids = Keys(all_videos)

\* two resolved playlists share a video and the merged set was computed
C1_Witness ==
    /\ Completed("extract_videos_list")
    /\ api_calls > 0
    /\ \E i, j \in DOMAIN playlists :
          /\ i < j
          /\ Range(world.items[playlists[i].playlist_id])
                \cap Range(world.items[playlists[j].playlist_id]) # {}
          /\ world.items[playlists[i].playlist_id]
                # world.items[playlists[j].playlist_id]

\* C2: extract_videos_list run against a cache that holds a `videos` entry
\* calls get_videos_json zero times, leaves the cache as it is and yields the
\* ids of the cached document; the run that wrote the document yielded the
\* same ids.
C2_WarmCacheExtraction ==
    [][(pc = "extract_videos_list" /\ pc' # "killed") =>
          /\ ~IsNone(cache.videos) =>
                /\ pc' = "download_video_files"
                /\ api_calls' = api_calls
                /\ cache' = cache
                /\ videos_ids' = Keys(Loaded(cache.videos))
          /\ (IsNone(cache.videos) /\ pc' = "download_video_files") =>
                /\ ~IsNone(cache'.videos)
                /\ videos_ids' = Keys(Loaded(cache'.videos))]_vars

\* a later invocation went through extract_videos_list on a warm cache
C2_Witness ==
    /\ pc = "download_video_files"
    /\ api_calls = 0
    /\ videos_ids # <<>>
    /\ args.keep_build_dir

\* C3: for a Channel or User descriptor, after extract_playlists the resolved
\* playlists contain the channel's uploads playlist, whatever the channel lists.
C3_UploadsResolved ==
    (Completed("extract_playlists") /\ (is_user(args) \/ is_channel(args))) =>
        Uploads(main_channel_id) \in ResolvedIds

\* a channel that lists no playlist at all was resolved
C3_Witness ==
    /\ Completed("extract_playlists")
    /\ is_channel(args)
    /\ world.listed = <<>>
    /\ ResolvedIds = {UU1}

\* C4 as stated: whatever a later invocation does, a `videos` entry written
\* earlier stays in the cache and no get_videos_json call is made while it is
\* there.
C4_EntryKeptAcrossRuns ==
    [][~IsNone(cache.videos) =>
          /\ cache'.videos = cache.videos
          /\ api_calls' <= api_calls]_vars

\* C4 as amended: the same, except for the step that prepares the build folder
\* of an invocation started without keep_build_dir, which removes the cache.
C4_EntryKeptUnlessWiped ==
    [][(~IsNone(cache.videos) /\ ~(pc = "run" /\ ~args.keep_build_dir)) =>
          /\ cache'.videos = cache.videos
          /\ api_calls' <= api_calls]_vars

\* an invocation with keep_build_dir, after a killed one that had written the
\* entry, went through extract_videos_list without a get_videos_json call
C4_Witness ==
    /\ args.keep_build_dir
    /\ Completed("extract_videos_list")
    /\ api_calls = 0
    /\ ~IsNone(cache.videos)
    /\ IsNone(cache.videos_channels)

\* the stages run() goes through before packaging
PriorStages(a) ==
    (Stages \ {"make_zim_file"})
        \ (IF a.skip_download THEN {"download_video_files"} ELSE {})

\* C5: make_zim_file is the last step of run() and is called only when every
\* stage before it completed without error (the download stage being passed
\* over under skip_download); a run that failed in a stage never calls it.
C5_PackagingLast ==
    /\ packaged =>
          /\ pc = "done"
          /\ error = NoError
          /\ \A s \in PriorStages(args) : Completed(s)
    /\ pc = "failed" =>
          /\ ~packaged
          /\ "make_zim_file" \notin started
          /\ error.stage \in started

\* the archive was packaged by a run that downloaded
C5_Witness ==
    /\ packaged
    /\ pc = "done"
    /\ "download_video_files" \in started

\* the text is supplied and is no "#" followed by six hexadecimal digits
NotHexColor(text) ==
    /\ text # None
    /\ text # <<>>
    /\ ~(Len(text) = 7 /\ text[1] = "#" /\ \A i \in 2..7 : text[i] \in HexDigits)

BadColorSupplied == NotHexColor(args.main_color) \/ NotHexColor(args.secondary_color)

\* C9: with a supplied color that is no hex color, run() never gets past
\* check_branding_values: it fails there (or before it, in the credentials
\* check); no playlist is resolved, no video listed or downloaded, no author
\* info or branding fetched, no cache entry written and no archive packaged.
C9_BadColorFailsEarly ==
    BadColorSupplied =>
        /\ pc \in {"run", "credentials", "check_branding_values", "failed"}
        /\ started \subseteq {"credentials", "check_branding_values"}
        /\ cache = EmptyCache
        /\ channels_dir = {}
        /\ \A k \in DOMAIN branding_calls : branding_calls[k] = 0
        /\ api_calls = 0
        /\ ~packaged
        /\ (pc = "failed" /\ world.credentials_ok) =>
              error.stage = "check_branding_values"
        /\ (pc = "failed" /\ ~world.credentials_ok) => error.stage = "credentials"

\* check_branding_values rejected the color
C9_Witness ==
    /\ BadColorSupplied
    /\ pc = "failed"
    /\ error = [stage |-> "check_branding_values", kind |-> "ValueError"]

\* C10: a video of the Video Set whose download left no videos/<id>/
\* directory or no video.jpg does not fail the run; here for page generation:
\* when the thumbnail post-processing of download_video_files completed,
\* make_html_files completes too.
C10_FailedDownloadTolerated ==
    (/\ Completed("download_video_files")
     /\ \E v \in Range(videos_ids) : videos_dir[v] # "complete") =>
        ~(pc = "failed" /\ error.stage = "make_html_files")

\* the title update_metadata derives, as C6 states it
DerivedTitleAsStated ==
    IF is_playlist(args) /\ Cardinality(ResolvedIds) = 1
    THEN PlaylistTitle(CHOOSE p \in ResolvedIds : TRUE)
    ELSE world.channel_title[main_channel_id]

\* the same, the channel's title being stripped of surrounding whitespace
DerivedTitleStripped ==
    IF is_playlist(args) /\ Cardinality(ResolvedIds) = 1
    THEN PlaylistTitle(CHOOSE p \in ResolvedIds : TRUE)
    ELSE Strip(world.channel_title[main_channel_id])

\* C6 as stated: after update_metadata the title is the user's when one was
\* supplied, else the single playlist's title for a PlaylistList resolving to
\* one playlist, else the main channel's title.
C6_TitleAsStated ==
    Completed("update_metadata") =>
        /\ title = IF Truthy(args.title) THEN args.title ELSE DerivedTitleAsStated
        /\ zim_info.title = title

\* C6 as amended: the main channel's title is taken with its leading and
\* trailing whitespace removed.
C6_Title ==
    Completed("update_metadata") =>
        /\ title = IF Truthy(args.title) THEN args.title ELSE DerivedTitleStripped
        /\ zim_info.title = title

\* no title supplied, several playlists, a channel title with spaces around it
C6_Witness ==
    /\ Completed("update_metadata")
    /\ args.title = None
    /\ Len(playlists) > 1
    /\ title # world.channel_title[main_channel_id]
    /\ title = <<"N">> \o main_channel_id

\* C7: a non-empty creator, publisher or name supplied by the user is the
\* value update_metadata passes to zim_info.update.
C7_UserValuesFinalized ==
    Completed("update_metadata") =>
        /\ Truthy(args.creator) => zim_info.creator = args.creator
        /\ Truthy(args.publisher) => zim_info.publisher = args.publisher
        /\ Truthy(args.name) => zim_info.name = args.name

\* C8: whichever of the two colors are supplied or unset (None or empty),
\* update_metadata gets through its color resolution and leaves a supplied
\* color as it was and every unset one sampled from the profile image.
C8_ColorsResolved ==
    "update_metadata" \in started =>
        /\ error.kind # "UnboundLocalError"
        /\ Completed("update_metadata") =>
              /\ main_color =
                    IF Truthy(args.main_color) THEN args.main_color
                    ELSE get_colors(profile_jpg)[1]
              /\ secondary_color =
                    IF Truthy(args.secondary_color) THEN args.secondary_color
                    ELSE get_colors(profile_jpg)[2]

(* one invocation, for the pages and the client data: every assignment of
   videos to PL1 and PL2, listed by the platform in either order, every
   assignment of authors to the videos and every assignment of titles *)
\* titles of videos, the first two of the same slug
VideoTitles == {<<"T", "1">>, <<"t", "1">>, <<"T", "2">>}

PagesInputs ==
    ({WithCollection(DefaultArgs, c) :
        c \in {d \in Collections :
                 d.youtube_id \in {UC1, PL1 \o <<",">> \o PL2, PL2 \o <<",">> \o PL1}}}
        \X {[DefaultWorld EXCEPT
                !.items = [@ EXCEPT ![PL1] = a, ![PL2] = b], !.reversed = r] :
              a \in ItemLists, b \in ItemLists, r \in BOOLEAN})
    \cup
    ({DefaultArgs}
        \X {[DefaultWorld EXCEPT !.author = au] : au \in [Videos -> Channels]})
    \cup
    ({DefaultArgs}
        \X {[DefaultWorld EXCEPT !.video_title = t] : t \in [Videos -> VideoTitles]})

InitPages == InitWith(PagesInputs)

SpecPages == InitPages /\ [][Run]_vars

\* C11: when make_html_files has completed, data.js holds one array per
\* resolved playlist, in the order of the playlists, and the array of a
\* playlist is the sequence of that playlist's own videos by ascending
\* position, whether or not another playlist holds them too.
C11_DataJsPerPlaylist ==
    Completed("make_html_files") =>
        /\ Len(data_js) = Len(playlists)
        /\ \A i \in DOMAIN playlists :
              /\ data_js[i].playlist_id = playlists[i].playlist_id
              /\ data_js[i].videos = world.items[playlists[i].playlist_id]

\* data.js was written for two playlists that share a video, one of them
\* holding a video of its own before it, and the platform listed the items
\* last position first
C11_Witness ==
    /\ Completed("make_html_files")
    /\ world.reversed
    /\ Len(data_js) = 2
    /\ \E i, j \in 1..2 :
          /\ i # j
          /\ Len(data_js[i].videos) = 2
          /\ data_js[i].videos[1] \notin Range(data_js[j].videos)
          /\ data_js[i].videos[2] \in Range(data_js[j].videos)

\* the text before the first comma of an identifier
FirstListedId(text) ==
    LET commas == {i \in DOMAIN text : text[i] = ","}
    IN  IF commas = {} THEN text
        ELSE SubSeq(text, 1, (CHOOSE i \in commas : \A j \in commas : i <= j) - 1)

\* C12: for a playlist collection, after extract_playlists the main channel
\* is the creator of the first id of the comma-separated identifier, however
\* many ids it lists, with or without repetitions, and in whatever order the
\* playlists are stored.
C12_MainChannelOfFirstId ==
    (Completed("extract_playlists") /\ is_playlist(args)) =>
        main_channel_id = CreatorId(FirstListedId(args.youtube_id))

\* two playlists of different creators were requested and the one stored
\* first is not the one listed first
C12_Witness ==
    /\ Completed("extract_playlists")
    /\ is_playlist(args)
    /\ Len(playlists) = 2
    /\ playlists[1].playlist_id # FirstListedId(args.youtube_id)
    /\ playlists[1].creator_id # playlists[2].creator_id
    /\ main_channel_id = playlists[2].creator_id

\* the ids a collection asks for
RequestedIds ==
    IF is_playlist(args)
    THEN Range(Split(args.youtube_id))
    ELSE Range(world.listed) \cup {Uploads(ChannelId(args.youtube_id))}

\* C13: for a channel, user or playlist collection, after extract_playlists
\* no two playlists have the same id and the ids of the playlists are the
\* requested ids (the channel's playlists and its uploads playlist, or the
\* listed ids), also when an id was requested more than once.
C13_DistinctPlaylists ==
    Completed("extract_playlists") =>
        /\ \A i, j \in DOMAIN playlists :
              playlists[i].playlist_id = playlists[j].playlist_id => i = j
        /\ ResolvedIds = RequestedIds

\* the same playlist id was listed twice and one playlist was resolved
C13_Witness ==
    /\ Completed("extract_playlists")
    /\ is_playlist(args)
    /\ Len(Split(args.youtube_id)) = 2
    /\ Len(playlists) = 1

\* a channel that lists its uploads playlist itself was resolved
C13_WitnessUploadsListed ==
    /\ Completed("extract_playlists")
    /\ is_channel(args)
    /\ Uploads(main_channel_id) \in Range(world.listed)
    /\ Len(playlists) = Len(world.listed)

\* C14: when no creator or an empty creator was supplied, after
\* update_metadata the creator is "Youtube Channels" for a playlist
\* collection and the label made from the main channel's title otherwise, is
\* never empty, and is the creator of the archive's metadata.
C14_CreatorDefaulted ==
    (Completed("update_metadata") /\ ~Truthy(args.creator)) =>
        /\ creator =
              IF is_playlist(args) THEN <<"Youtube Channels">>
              ELSE <<"Youtube Channel \"">>
                      \o world.channel_title[main_channel_id] \o <<"\"">>
        /\ creator # <<>>
        /\ zim_info.creator = creator

\* C15: once extract_videos_list has completed, with or without a `videos`
\* entry in the cache, the cache holds the `playlist_<id>_videos` list of
\* every resolved playlist, and make_html_files loads each of them.
C15_PlaylistListsPersisted ==
    /\ Completed("extract_videos_list") =>
          \A p \in ResolvedIds : ~IsNone(cache.playlist_videos[p])
    /\ "make_html_files" \in started => error.kind # "AttributeError"

\* C16: when the platform refuses the credentials, an invocation in a fresh
\* output directory prepares the build folder and then fails with ValueError:
\* no other stage is started, no platform call is made, nothing is written to
\* the cache or to the build folder, and no archive is packaged.
C16_NoWorkWithoutCredentials ==
    ~world.credentials_ok =>
        /\ pc \in {"run", "credentials", "failed"}
        /\ pc = "failed" => error = [stage |-> "credentials", kind |-> "ValueError"]
        /\ started \subseteq {"credentials"}
        /\ api_calls = 0
        /\ branding_calls = NoCalls
        /\ cache = EmptyCache
        /\ playlists = <<>>
        /\ videos_dir = NoVideosDir
        /\ channels_dir = {}
        /\ pages = {}
        /\ data_js = <<>>
        /\ ~packaged

\* run() has failed on the credentials, the build folder being prepared
C16_Witness ==
    /\ ~world.credentials_ok
    /\ pc = "failed"
    /\ error.stage = "credentials"
    /\ build_dir

\* how many times a tag occurs in a list of tags
Occurrences(tag_list, tag) == Cardinality({i \in DOMAIN tag_list : tag_list[i] = tag})

\* C17 as stated: after update_metadata the tags hold "_videos:yes" exactly
\* once, whatever list of tags the user supplied, and they are "youtube"
\* followed by "_videos:yes" when the user supplied none.
C17_TagExactlyOnce ==
    Completed("update_metadata") =>
        /\ Occurrences(tags, "_videos:yes") = 1
        /\ args.tags = <<>> => tags = <<"youtube", "_videos:yes">>

\* C17 as amended: after update_metadata the tags hold "_videos:yes" once
\* when the user's list holds it at most once and as many times as the user's
\* list otherwise; the user's tags come first, unchanged; with no tags
\* supplied the tags are "youtube" followed by "_videos:yes"; the archive's
\* metadata carries these tags.
C17_TagPresent ==
    Completed("update_metadata") =>
        /\ Occurrences(tags, "_videos:yes") =
              IF Occurrences(args.tags, "_videos:yes") <= 1 THEN 1
              ELSE Occurrences(args.tags, "_videos:yes")
        /\ args.tags = <<>> => tags = <<"youtube", "_videos:yes">>
        /\ args.tags # <<>> => SubSeq(tags, 1, Len(args.tags)) = args.tags
        /\ zim_info.tags = tags

\* the user's list held the tag already and was finalized as it was
C17_Witness ==
    /\ Completed("update_metadata")
    /\ args.tags = <<"_videos:yes">>
    /\ tags = args.tags

\* the author channels of the `videos_channels` document
AuthorChannels ==
    LET videos_channels_json == Loaded(cache.videos_channels)
    IN  {c \in Channels :
            \E v \in DOMAIN videos_channels_json : videos_channels_json[v] = c}

\* C18: download_authors_branding makes one save_channel_branding call,
\* without the banner, for every author channel of `videos_channels`, however
\* many videos the author has, and none for any other channel; the only call
\* with the banner is the one update_metadata makes for the main channel.
C18_BrandingOncePerAuthor ==
    /\ Completed("download_authors_branding") =>
          \A c \in Channels :
             branding_calls[<<c, FALSE>>] = IF c \in AuthorChannels THEN 1 ELSE 0
    /\ \A c \in Channels :
          /\ branding_calls[<<c, TRUE>>] <= 1
          /\ branding_calls[<<c, TRUE>>] = 1 =>
                c = main_channel_id /\ "update_metadata" \in started
    /\ Completed("update_metadata") => branding_calls[<<main_channel_id, TRUE>>] = 1

\* two videos of one author were annotated and the metadata was finalized
C18_Witness ==
    /\ Completed("update_metadata")
    /\ \E v1, v2 \in DOMAIN Loaded(cache.videos_channels) :
          /\ v1 # v2
          /\ Loaded(cache.videos_channels)[v1] = Loaded(cache.videos_channels)[v2]
          /\ branding_calls[<<Loaded(cache.videos_channels)[v1], FALSE>>] = 1

\* the slug of the i-th video of the `videos` document
SlugOf(i) == get_slug(VideoTitle(world, Loaded(cache.videos)[i].videoId))

VideoPages == pages \ {HomePage}

\* C19: make_html_files raises nothing when videos of the Video Set have the
\* same slug; it leaves one page per distinct slug, the page of a slug holding
\* the video processed last among those of that slug, so that there are as
\* many video pages as distinct slugs.
C19_SlugCollisionOverwrites ==
    /\ "make_html_files" \in started => pc # "failed"
    /\ Completed("make_html_files") =>
          LET videos == Loaded(cache.videos)
          IN  /\ \A p, q \in VideoPages : p.slug = q.slug => p = q
              /\ \A i \in DOMAIN videos : \E p \in VideoPages : p.slug = SlugOf(i)
              /\ \A p \in VideoPages :
                    \E i \in DOMAIN videos :
                       /\ p.slug = SlugOf(i)
                       /\ p.video_id = videos[i].videoId
                       /\ \A j \in DOMAIN videos : SlugOf(j) = SlugOf(i) => j <= i
              /\ Cardinality(VideoPages)
                    = Cardinality({SlugOf(i) : i \in DOMAIN videos})

\* the pages were written for two videos whose different titles have one slug
C19_Witness ==
    /\ Completed("make_html_files")
    /\ Len(Loaded(cache.videos)) = 2
    /\ world.video_title[Loaded(cache.videos)[1].videoId]
          # world.video_title[Loaded(cache.videos)[2].videoId]
    /\ SlugOf(1) = SlugOf(2)
    /\ Cardinality(VideoPages) = 1

\* C20: from the moment page generation starts, the ids of the videos to
\* download are the union of the video ids of the resolved playlists, and
\* every video of a playlist's array in data.js is a key of the `videos`
\* document the pages are made from, whichever invocation wrote that document.
C20_PagesCoverPlaylists ==
    "make_html_files" \in started =>
        /\ Range(videos_ids) = UNION {Range(world.items[p]) : p \in ResolvedIds}
        /\ \A i \in DOMAIN data_js :
              Range(data_js[i].videos) \subseteq Range(Keys(Loaded(cache.videos)))

\* C21: when check_branding_values raises, in an invocation that started
\* from an empty build folder, nothing was stored: the build folder holds no
\* profile.jpg and no banner.jpg, so that no image the user supplied was moved
\* or fetched into it.
C21_FailedCheckLeavesNothing ==
    (pc = "failed" /\ error.stage = "check_branding_values") =>
        /\ profile_jpg = <<>>
        /\ banner_jpg = <<>>

====
